---- MODULE Spec2Model ----
(***************************************************************************)
(* Model of pbrt-rs: the fixed-dimension Vector<N, T> (src/core/vec.rs),   *)
(* Point2/Point3 (src/core/point.rs), coordinate_system, and the shared    *)
(* Arc<Mutex<T>> container with its atomic! access macro                   *)
(* (src/util/types/shared.rs).                                             *)
(*                                                                         *)
(* Numbers.  The library is instantiated for T = i32 and T = f64.  Both    *)
(* are modelled at a reduced width, keeping what the width does:           *)
(*   - i32 is a two's complement integer of IntBits bits.  An overflowing  *)
(*     +, -, * or unary - panics when the build has overflow checks (the   *)
(*     debug profile) and wraps modulo 2^IntBits when it has not (the      *)
(*     release profile); overflow_checks is the build's choice.            *)
(*   - f64 is a binary floating-point number with a MantBits-bit           *)
(*     significand, round-to-nearest-even, gradual underflow to a smallest *)
(*     unit of 2^-FracBits, overflow to +-inf, and NaN.  A finite value is *)
(*     held as its integer count of units.  The sign of zero is not kept:  *)
(*     == treats the two zeros as equal, and no operation modelled here    *)
(*     divides by a zero that could be negative.                           *)
(* A number is a record [c, v]: c is "i32", "f64" (finite), "inf" (v is    *)
(* the sign), "nan", or "panic" for the value of an expression whose       *)
(* evaluation panicked.                                                    *)
(***************************************************************************)
EXTENDS Integers, Sequences, FiniteSets, TLC

\* Model bounds.
IntBits == 4
FracBits == 3
ExpRange == 5
MaxIndex == 4
NumThreads == 2
MaxAccess == 2

Pow2(k) == 2 ^ k

Abs(x) == IF x < 0 THEN -x ELSE x
Sign(x) == IF x < 0 THEN -1 ELSE 1

VARIABLES
    ty,               \* the component type T: "i32" or "f64"
    overflow_checks,  \* the build: TRUE panics on integer overflow, FALSE wraps
    a, b,             \* the operands, component arrays indexed from 0
    op,               \* the operation(s) applied so far
    args,             \* the scalar arguments of the operation (indices, ratio)
    self,             \* the receiver / first output of the operation
    out3,             \* the second output (coordinate_system's v3)
    ret,              \* the scalar returned
    panicked,         \* the operation panicked
    holder,           \* the thread holding the mutex's guard, or 0
    poisoned,         \* the mutex's poison flag
    pc,               \* each thread's position in atomic!
    form,             \* the form of atomic! each thread is expanding
    content,          \* the value inside the container
    accesses,         \* how many accesses each thread has started
    recovered         \* the thread went on after a failed lock()

numvars == <<ty, overflow_checks, a, b, op, args, self, out3, ret, panicked>>
lockvars == <<holder, poisoned, pc, form, content, accesses, recovered>>
vars == <<numvars, lockvars>>

(***************************************************************************)
(* i32                                                                     *)
(***************************************************************************)
MinInt == -Pow2(IntBits - 1)
MaxInt == Pow2(IntBits - 1) - 1

I(k) == [c |-> "i32", v |-> k]
PANIC == [c |-> "panic", v |-> 0]
NONE == [c |-> "none", v |-> 0]

InRange(k) == MinInt <= k /\ k <= MaxInt

\* Two's complement wrap of a mathematical integer to IntBits bits.
Wrap(k) == ((k - MinInt) % Pow2(IntBits)) + MinInt

\* The result of an i32 operation whose mathematical value is k.
I32Result(k) ==
    IF InRange(k) THEN I(k)
    ELSE IF overflow_checks THEN PANIC
    ELSE I(Wrap(k))

(***************************************************************************)
(* f64                                                                     *)
(***************************************************************************)
MantBits == IntBits + 2

\* 1.0 in units.
One == Pow2(FracBits)
MaxFinite == (Pow2(MantBits) - 1) * Pow2(ExpRange)

F(k) == [c |-> "f64", v |-> k]
INF(s) == [c |-> "inf", v |-> s]
NAN == [c |-> "nan", v |-> 0]

IsNaN(x) == x.c = "nan"
IsInf(x) == x.c = "inf"
IsFinite(x) == x.c = "f64"

RECURSIVE ScaleOf(_, _, _)
\* The least j with n / den < 2^(MantBits + j): the exponent of n / den.
ScaleOf(n, den, j) ==
    IF n < den * Pow2(MantBits + j) THEN j ELSE ScaleOf(n, den, j + 1)

\* Round the magnitude n / den (n >= 0, den > 0, in units) to the nearest
\* representable magnitude, ties to even; -1 when it rounds past MaxFinite.
RoundMag(n, den) ==
    IF n >= den * Pow2(MantBits + ExpRange) THEN -1
    ELSE LET j == ScaleOf(n, den, 0)
             D == den * Pow2(j)
             q == n \div D
             r == n % D
             m == IF 2 * r > D \/ (2 * r = D /\ q % 2 = 1) THEN q + 1 ELSE q
             k == m * Pow2(j)
         IN IF k > MaxFinite THEN -1 ELSE k

\* The f64 nearest to the rational num / den (den # 0).
FRound(num, den) ==
    LET s == Sign(num) * Sign(den)
        mag == RoundMag(Abs(num), Abs(den))
    IN IF mag = -1 THEN INF(s) ELSE F(s * mag)

F64Neg(x) ==
    IF IsNaN(x) THEN NAN
    ELSE IF IsInf(x) THEN INF(-x.v)
    ELSE F(-x.v)

F64Add(x, y) ==
    IF IsNaN(x) \/ IsNaN(y) THEN NAN
    ELSE IF IsInf(x) /\ IsInf(y) THEN (IF x.v = y.v THEN x ELSE NAN)
    ELSE IF IsInf(x) THEN x
    ELSE IF IsInf(y) THEN y
    ELSE FRound(x.v + y.v, 1)

F64Sub(x, y) == F64Add(x, F64Neg(y))

F64Mul(x, y) ==
    IF IsNaN(x) \/ IsNaN(y) THEN NAN
    ELSE IF IsInf(x) \/ IsInf(y) THEN
        (IF x.v = 0 \/ y.v = 0 THEN NAN ELSE INF(Sign(x.v) * Sign(y.v)))
    ELSE FRound(x.v * y.v, One)

F64Div(x, y) ==
    IF IsNaN(x) \/ IsNaN(y) THEN NAN
    ELSE IF IsInf(x) THEN (IF IsInf(y) THEN NAN ELSE INF(x.v * Sign(y.v)))
    ELSE IF IsInf(y) THEN F(0)
    ELSE IF y.v = 0 THEN (IF x.v = 0 THEN NAN ELSE INF(Sign(x.v)))
    ELSE FRound(x.v * One, y.v)

\* The representable non-negative magnitudes.
Magnitudes == { m * Pow2(j) : m \in 0..(Pow2(MantBits) - 1), j \in 0..ExpRange }

Max(S) == CHOOSE x \in S : \A y \in S : y <= x
Min(S) == CHOOSE x \in S : \A y \in S : x <= y
Mantissa(k) == k \div Pow2(ScaleOf(k, 1, 0))

\* The correctly rounded square root.
F64Sqrt(x) ==
    IF IsNaN(x) THEN NAN
    ELSE IF IsInf(x) THEN (IF x.v > 0 THEN x ELSE NAN)
    ELSE IF x.v < 0 THEN NAN
    ELSE LET X == x.v * One
             lo == Max({ r \in Magnitudes : r * r <= X })
             hi == Min({ r \in Magnitudes : r > lo })
         IN IF lo * lo = X THEN F(lo)
            ELSE IF (lo + hi) * (lo + hi) > 4 * X THEN F(lo)
            ELSE IF (lo + hi) * (lo + hi) < 4 * X THEN F(hi)
            ELSE IF Mantissa(lo) % 2 = 0 THEN F(lo) ELSE F(hi)

F64Abs(x) ==
    IF IsNaN(x) THEN NAN
    ELSE IF IsInf(x) THEN INF(1)
    ELSE F(Abs(x.v))

\* x > y on f64: false whenever an operand is NaN.
F64Gt(x, y) ==
    IF IsNaN(x) \/ IsNaN(y) THEN FALSE
    ELSE IF IsInf(x) THEN x.v > 0 /\ ~(IsInf(y) /\ y.v > 0)
    ELSE IF IsInf(y) THEN y.v < 0
    ELSE x.v > y.v

\* x == y on f64: NaN equals nothing, itself included.
F64Eq(x, y) == ~IsNaN(x) /\ ~IsNaN(y) /\ x = y

\* `x as f64` for an i32 x.
I32ToF64(x) == FRound(x.v * One, 1)

(***************************************************************************)
(* Arithmetic of the component type T, chosen by the operand's tag.  A     *)
(* panic inside an expression makes the whole expression panic.            *)
(***************************************************************************)
Add(x, y) ==
    IF x = PANIC \/ y = PANIC THEN PANIC
    ELSE IF x.c = "i32" THEN I32Result(x.v + y.v)
    ELSE F64Add(x, y)

Sub(x, y) ==
    IF x = PANIC \/ y = PANIC THEN PANIC
    ELSE IF x.c = "i32" THEN I32Result(x.v - y.v)
    ELSE F64Sub(x, y)

Mul(x, y) ==
    IF x = PANIC \/ y = PANIC THEN PANIC
    ELSE IF x.c = "i32" THEN I32Result(x.v * y.v)
    ELSE F64Mul(x, y)

Neg(x) ==
    IF x = PANIC THEN PANIC
    ELSE IF x.c = "i32" THEN I32Result(-x.v)
    ELSE F64Neg(x)

\* x == y of PartialEq for i32 and f64.
Eq(x, y) ==
    IF x = PANIC \/ y = PANIC THEN FALSE
    ELSE IF x.c = "i32" THEN x = y
    ELSE F64Eq(x, y)

\* x.partial_cmp(y): "none" when an operand is NaN.
PartialCmp(x, y) ==
    IF x.c = "i32" THEN
        (IF x.v < y.v THEN "less" ELSE IF x.v > y.v THEN "greater" ELSE "equal")
    ELSE IF IsNaN(x) \/ IsNaN(y) THEN "none"
    ELSE IF F64Gt(x, y) THEN "greater"
    ELSE IF F64Gt(y, x) THEN "less"
    ELSE "equal"

\* `x as f64`.
AsF64(x) ==
    IF x = PANIC THEN PANIC
    ELSE IF x.c = "i32" THEN I32ToF64(x)
    ELSE x

\* `0 as T` for the type of x.
ZeroOf(t) == IF t = "i32" THEN I(0) ELSE F(0)

(***************************************************************************)
(* Vector<N, T>: a component array, indexed from 0.  An operation returns  *)
(* [vec, panicked] when it works on a receiver in place, and a number      *)
(* (PANIC when it panicked) when it returns a scalar.                      *)
(***************************************************************************)
Dim(x) == Cardinality(DOMAIN x)

Panicked(x) == \E i \in DOMAIN x : x[i] = PANIC

\* Index::index: assert!(index < N), then the array read.
VectorIndex(x, index) ==
    IF ~(index < Dim(x)) THEN PANIC
    ELSE x[index]

\* Mutant of VectorIndexMut: the index reduced modulo N, no assertion.
VectorIndexMutWraps(x, index, value) ==
    [vec |-> [x EXCEPT ![index % Dim(x)] = value], panicked |-> FALSE]

\* IndexMut::index_mut followed by the store through the reference.
VectorIndexMut(x, index, value) ==
    IF ~(index < Dim(x)) THEN [vec |-> x, panicked |-> TRUE]
    ELSE [vec |-> [x EXCEPT ![index] = value], panicked |-> FALSE]

RECURSIVE AddAssignFrom(_, _, _)
\* The loop of add_assign from component i on.
AddAssignFrom(s, rhs, i) ==
    IF i >= Dim(s) THEN [vec |-> s, panicked |-> FALSE]
    ELSE LET x == Add(VectorIndex(s, i), VectorIndex(rhs, i))
         IN IF x = PANIC THEN [vec |-> s, panicked |-> TRUE]
            ELSE AddAssignFrom(VectorIndexMut(s, i, x).vec, rhs, i + 1)

add_assign(s, rhs) == AddAssignFrom(s, rhs, 0)

RECURSIVE SubAssignFrom(_, _, _)
SubAssignFrom(s, rhs, i) ==
    IF i >= Dim(s) THEN [vec |-> s, panicked |-> FALSE]
    ELSE LET x == Sub(VectorIndex(s, i), VectorIndex(rhs, i))
         IN IF x = PANIC THEN [vec |-> s, panicked |-> TRUE]
            ELSE SubAssignFrom(VectorIndexMut(s, i, x).vec, rhs, i + 1)

\* Mutant of sub_assign: the loop body copied from add_assign, += kept.
sub_assign_adds(s, rhs) == AddAssignFrom(s, rhs, 0)

sub_assign(s, rhs) == SubAssignFrom(s, rhs, 0)

\* PartialEq::eq: false at the first component with self[i] != other[i].
eq(x, y) == \A i \in 0..(Dim(x) - 1) : Eq(VectorIndex(x, i), VectorIndex(y, i))

RECURSIVE DivAssignFrom(_, _, _)
\* div_assign by an f64 scalar (f64 division never panics).
DivAssignFrom(s, rhs, i) ==
    IF i >= Dim(s) THEN s
    ELSE DivAssignFrom([s EXCEPT ![i] = F64Div(s[i], rhs)], rhs, i + 1)

div_assign(s, rhs) == DivAssignFrom(s, rhs, 0)

RECURSIVE NegFrom(_, _)
NegFrom(s, i) ==
    IF i >= Dim(s) THEN [vec |-> s, panicked |-> FALSE]
    ELSE LET x == Neg(VectorIndex(s, i))
         IN IF x = PANIC THEN [vec |-> s, panicked |-> TRUE]
            ELSE NegFrom(VectorIndexMut(s, i, x).vec, i + 1)

neg(s) == NegFrom(s, 0)

\* Vector3::permute: Self([self[x], self[y], self[z]]).
permute(s, x, y, z) ==
    LET r == [i \in 0..2 |-> VectorIndex(s, <<x, y, z>>[i + 1])]
    IN [vec |-> r, panicked |-> Panicked(r)]

RECURSIVE DotFrom(_, _, _, _)
DotFrom(s, other, i, result) ==
    IF i >= Dim(s) \/ result = PANIC THEN result
    ELSE DotFrom(s, other, i + 1, Add(result, Mul(s[i], other[i])))

dot(s, other) == DotFrom(s, other, 0, ZeroOf(s[0].c))

RECURSIVE LengthSquaredFrom(_, _, _)
\* squared_sum += (self[i] * self[i]) as f64: the product is taken in T.
LengthSquaredFrom(s, i, squared_sum) ==
    IF i >= Dim(s) \/ squared_sum = PANIC THEN squared_sum
    ELSE LET sq == AsF64(Mul(s[i], s[i]))
         IN LengthSquaredFrom(s, i + 1,
                IF sq = PANIC THEN PANIC ELSE F64Add(squared_sum, sq))

length_squared(s) == LengthSquaredFrom(s, 0, F(0))

length(s) ==
    LET l2 == length_squared(s)
    IN IF l2 = PANIC THEN PANIC ELSE F64Sqrt(l2)

RECURSIVE MaxByFirstFrom(_, _, _)
\* Mutant of MaxByFrom: the kept element is replaced only by a greater one.
MaxByFirstFrom(s, i, best) ==
    IF i >= Dim(s) THEN best
    ELSE LET c == PartialCmp(s[best], s[i])
         IN IF c = "none" THEN -1
            ELSE MaxByFirstFrom(s, i + 1, IF c = "less" THEN i ELSE best)

RECURSIVE MaxByFrom(_, _, _)
\* Iterator::max_by as a fold: the later element replaces the kept one
\* unless the kept one compares Greater; the comparison unwraps partial_cmp.
\* Returns the kept index, or -1 when the unwrap panicked.
MaxByFrom(s, i, best) ==
    IF i >= Dim(s) THEN best
    ELSE LET c == PartialCmp(s[best], s[i])
         IN IF c = "none" THEN -1
            ELSE MaxByFrom(s, i + 1, IF c = "greater" THEN best ELSE i)

max_dimension(s) == MaxByFrom(s, 1, 0)

\* Mutant of cross: the first component's minus written as a plus.
cross_sign_slip(s, other) ==
    LET x == Add(Mul(s[1], other[2]), Mul(s[2], other[1]))
        y == Sub(Mul(s[2], other[0]), Mul(s[0], other[2]))
        z == Sub(Mul(s[0], other[1]), Mul(s[1], other[0]))
        r == [i \in 0..2 |-> <<x, y, z>>[i + 1]]
    IN [vec |-> r, panicked |-> Panicked(r)]

\* Vector3::cross.
cross(s, other) ==
    LET x == Sub(Mul(s[1], other[2]), Mul(s[2], other[1]))
        y == Sub(Mul(s[2], other[0]), Mul(s[0], other[2]))
        z == Sub(Mul(s[0], other[1]), Mul(s[1], other[0]))
        r == [i \in 0..2 |-> <<x, y, z>>[i + 1]]
    IN [vec |-> r, panicked |-> Panicked(r)]

\* Vector::normalize: the components as f64, divided by self.length().
normalize(s) ==
    LET l == length(s)
    IN IF l = PANIC THEN [vec |-> s, panicked |-> TRUE]
       ELSE [vec |-> div_assign([i \in DOMAIN s |-> AsF64(s[i])], l), panicked |-> FALSE]

\* Mutant of coordinate_system: the branch taken on |v1.x| < |v1.y|.
coordinate_system_flipped(v1) ==
    LET v2 == IF F64Gt(F64Abs(v1[1]), F64Abs(v1[0]))
              THEN div_assign([i \in 0..2 |-> <<F64Neg(v1[2]), F(0), v1[0]>>[i + 1]],
                              F64Sqrt(F64Add(F64Mul(v1[0], v1[0]), F64Mul(v1[2], v1[2]))))
              ELSE div_assign([i \in 0..2 |-> <<F(0), v1[2], F64Neg(v1[1])>>[i + 1]],
                              F64Sqrt(F64Add(F64Mul(v1[1], v1[1]), F64Mul(v1[2], v1[2]))))
    IN [v2 |-> v2, v3 |-> cross(v1, v2).vec]

\* Mutant of SquaredDivisor: the squares summed are those of the other branch.
SquaredDivisorOtherBranch(v1) ==
    IF F64Gt(F64Abs(v1[0]), F64Abs(v1[1]))
    THEN F64Add(F64Mul(v1[1], v1[1]), F64Mul(v1[2], v1[2]))
    ELSE F64Add(F64Mul(v1[0], v1[0]), F64Mul(v1[2], v1[2]))

\* coordinate_system: the value under the square root that v2 is divided by,
\* v1.x * v1.x + v1.z * v1.z or v1.y * v1.y + v1.z * v1.z by the branch.
SquaredDivisor(v1) ==
    IF F64Gt(F64Abs(v1[0]), F64Abs(v1[1]))
    THEN F64Add(F64Mul(v1[0], v1[0]), F64Mul(v1[2], v1[2]))
    ELSE F64Add(F64Mul(v1[1], v1[1]), F64Mul(v1[2], v1[2]))

\* coordinate_system(v1, &mut v2, &mut v3) on Vector3<f64>: the values
\* written to v2 and v3.
coordinate_system(v1) ==
    LET v2 == IF F64Gt(F64Abs(v1[0]), F64Abs(v1[1]))
              THEN div_assign([i \in 0..2 |-> <<F64Neg(v1[2]), F(0), v1[0]>>[i + 1]],
                              F64Sqrt(SquaredDivisor(v1)))
              ELSE div_assign([i \in 0..2 |-> <<F(0), v1[2], F64Neg(v1[1])>>[i + 1]],
                              F64Sqrt(SquaredDivisor(v1)))
    IN [v2 |-> v2, v3 |-> cross(v1, v2).vec]

(***************************************************************************)
(* Point2<T> / Point3<T>: the same component array.  Indexing is the bare  *)
(* array access self.0[index], which the language bounds-checks.  The      *)
(* by-value operators return [vec, panicked].                              *)
(***************************************************************************)
PointIndex(p, index) ==
    IF index < Dim(p) THEN p[index] ELSE PANIC

PointIndexMut(p, index, value) ==
    IF index < Dim(p) THEN [vec |-> [p EXCEPT ![index] = value], panicked |-> FALSE]
    ELSE [vec |-> p, panicked |-> TRUE]

\* Point3::permute: Self([self[x], self[y], self[z]]).
PointPermute(p, x, y, z) ==
    LET r == [i \in 0..2 |-> PointIndex(p, <<x, y, z>>[i + 1])]
    IN [vec |-> r, panicked |-> Panicked(r)]

RECURSIVE PointAddFrom(_, _, _)
\* self[0] += rhs[0]; self[1] += rhs[1]; ... ; self
PointAddFrom(p, rhs, i) ==
    IF i >= Dim(p) THEN [vec |-> p, panicked |-> FALSE]
    ELSE LET x == Add(PointIndex(p, i), rhs[i])
         IN IF x = PANIC THEN [vec |-> p, panicked |-> TRUE]
            ELSE PointAddFrom(PointIndexMut(p, i, x).vec, rhs, i + 1)

RECURSIVE PointSubFrom(_, _, _)
\* self[0] -= rhs[0]; self[1] -= rhs[1]; ...
PointSubFrom(p, rhs, i) ==
    IF i >= Dim(p) THEN [vec |-> p, panicked |-> FALSE]
    ELSE LET x == Sub(PointIndex(p, i), rhs[i])
         IN IF x = PANIC THEN [vec |-> p, panicked |-> TRUE]
            ELSE PointSubFrom(PointIndexMut(p, i, x).vec, rhs, i + 1)

\* Mutant of PointAddVector: -= in place of +=.
PointAddVectorSubtracts(p, rhs) == PointSubFrom(p, rhs, 0)

\* Add<Vector<T>> for Point<T>.
PointAddVector(p, rhs) == PointAddFrom(p, rhs, 0)

\* Add<Point<T>> for Point<T>.
PointAddPoint(p, rhs) == PointAddFrom(p, rhs, 0)

\* Sub<Point<T>> for Point<T>: the subtraction in place, then self.into(),
\* which hands the component array to the vector (no From<Point> for Vector
\* is among the files; From<Vector> for Point moves the array the same way).
PointSubPoint(p, rhs) == PointSubFrom(p, rhs, 0)

\* PartialEq for Point2 / Point3: self[0] == other[0] && ...
PointEq(p, q) == \A i \in 0..(Dim(p) - 1) : Eq(PointIndex(p, i), PointIndex(q, i))

\* From<Point3<i32>> for Point3<f64> (and the reflexive From for f64).
PointToF64(p) == [i \in DOMAIN p |-> AsF64(p[i])]

\* Mul<f64> for Point3<f64>.
PointMul(p, rhs) == [i \in DOMAIN p |-> F64Mul(PointIndex(p, i), rhs)]

\* Mutant of lerp: the two weights exchanged.
lerp_weights_swapped(ratio, point1, point2) ==
    LET p1 == PointToF64(point1)
        p2 == PointToF64(point2)
    IN PointAddPoint(PointMul(p1, ratio), PointMul(p2, F64Sub(F(One), ratio))).vec

\* Point3::lerp: point1 * (1. - ratio) + point2 * ratio on the f64 points.
lerp(ratio, point1, point2) ==
    LET p1 == PointToF64(point1)
        p2 == PointToF64(point2)
    IN PointAddPoint(PointMul(p1, F64Sub(F(One), ratio)), PointMul(p2, ratio)).vec

(***************************************************************************)
(* shared(value) and atomic!.  A thread expanding atomic! calls lock(),    *)
(* which blocks until the mutex is free and returns Ok(guard), or          *)
(* Err(PoisonError(guard)) when the mutex is poisoned.  Either way the     *)
(* guard is held until the match ends: in the Ok arm it is bound to $name, *)
(* in the Err(_) arm it stays in the scrutinee's temporary.  Dropping a    *)
(* guard while its thread is panicking poisons the mutex.                  *)
(*                                                                         *)
(* The forms: "read" and "mut" panic in the Err arm; "mut_err" evaluates   *)
(* $err_expr there.  The read form with an $err_expr names an unbound      *)
(* $expr in its Ok arm and does not expand, so no thread runs it.          *)
(***************************************************************************)
Threads == 1..NumThreads
Forms == {"read", "mut", "mut_err"}

LockInit ==
    /\ holder = 0
    /\ poisoned = FALSE
    /\ pc = [t \in Threads |-> "idle"]
    /\ form = [t \in Threads |-> "none"]
    /\ content = 0
    /\ accesses = [t \in Threads |-> 0]
    /\ recovered = [t \in Threads |-> FALSE]

\* The thread reaches an atomic!(...) and calls $lock.lock().
Request(t, f) ==
    /\ pc[t] = "idle"
    /\ accesses[t] < MaxAccess
    /\ pc' = [pc EXCEPT ![t] = "waiting"]
    /\ form' = [form EXCEPT ![t] = f]
    /\ accesses' = [accesses EXCEPT ![t] = @ + 1]
    /\ UNCHANGED <<holder, poisoned, content, recovered>>
    /\ UNCHANGED numvars

\* lock() returns: the mutex is free; Ok when it is not poisoned, Err when it is.
Acquire(t) ==
    /\ pc[t] = "waiting"
    /\ holder = 0
    /\ holder' = t
    /\ pc' = [pc EXCEPT ![t] = IF poisoned THEN "err_arm" ELSE "ok_arm"]
    /\ UNCHANGED <<poisoned, form, content, accesses, recovered>>
    /\ UNCHANGED numvars

\* The Ok arm's block ends normally: the guard is dropped.
BlockExit(t) ==
    /\ pc[t] = "ok_arm"
    /\ holder' = 0
    /\ pc' = [pc EXCEPT ![t] = "idle"]
    /\ content' = IF form[t] = "read" THEN content ELSE (content + 1) % (MaxAccess + 1)
    /\ UNCHANGED <<poisoned, form, accesses, recovered>>
    /\ UNCHANGED numvars

\* Mutant of BlockPanic: the guard is not dropped when the block unwinds.
BlockPanicKeepsGuard(t) ==
    /\ pc[t] = "ok_arm"
    /\ poisoned' = TRUE
    /\ pc' = [pc EXCEPT ![t] = "panicked_block"]
    /\ UNCHANGED <<holder, form, content, accesses, recovered>>
    /\ UNCHANGED numvars

\* The Ok arm's block panics: unwinding drops the guard and poisons the mutex.
BlockPanic(t) ==
    /\ pc[t] = "ok_arm"
    /\ holder' = 0
    /\ poisoned' = TRUE
    /\ pc' = [pc EXCEPT ![t] = "panicked_block"]
    /\ UNCHANGED <<form, content, accesses, recovered>>
    /\ UNCHANGED numvars

\* Mutant of ErrPanic: the Err arm yields a value instead of panicking.
ErrPanicGoesOn(t) ==
    /\ pc[t] = "err_arm"
    /\ form[t] \in {"read", "mut"}
    /\ holder' = 0
    /\ pc' = [pc EXCEPT ![t] = "idle"]
    /\ recovered' = [recovered EXCEPT ![t] = TRUE]
    /\ UNCHANGED <<poisoned, form, content, accesses>>
    /\ UNCHANGED numvars

\* Err(_) => panic!("Lock error"): the forms without an $err_expr.
ErrPanic(t) ==
    /\ pc[t] = "err_arm"
    /\ form[t] \in {"read", "mut"}
    /\ holder' = 0
    /\ pc' = [pc EXCEPT ![t] = "panicked_lock"]
    /\ UNCHANGED <<poisoned, form, content, accesses, recovered>>
    /\ UNCHANGED numvars

\* Err(_) => $err_expr, and $err_expr returns: the match yields its content
\* and the thread goes on.
ErrExprReturn(t) ==
    /\ pc[t] = "err_arm"
    /\ form[t] = "mut_err"
    /\ holder' = 0
    /\ pc' = [pc EXCEPT ![t] = "idle"]
    /\ recovered' = [recovered EXCEPT ![t] = TRUE]
    /\ UNCHANGED <<poisoned, form, content, accesses>>
    /\ UNCHANGED numvars

\* Err(_) => $err_expr, and $err_expr itself panics.
ErrExprPanic(t) ==
    /\ pc[t] = "err_arm"
    /\ form[t] = "mut_err"
    /\ holder' = 0
    /\ pc' = [pc EXCEPT ![t] = "panicked_err_expr"]
    /\ UNCHANGED <<poisoned, form, content, accesses, recovered>>
    /\ UNCHANGED numvars

LockNext ==
    \E t \in Threads :
        \/ \E f \in Forms : Request(t, f)
        \/ Acquire(t)
        \/ BlockExit(t)
        \/ BlockPanic(t)
        \/ ErrPanic(t)
        \/ ErrExprReturn(t)
        \/ ErrExprPanic(t)

\* The vector and point variables, at rest while the threads run.
NumParked ==
    /\ ty = "i32"
    /\ overflow_checks = FALSE
    /\ a = [i \in 0..1 |-> [c |-> "i32", v |-> 0]]
    /\ b = a
    /\ op = "start"
    /\ args = <<>>
    /\ self = a
    /\ out3 = b
    /\ ret = NONE
    /\ panicked = FALSE

LockSpecInit == LockInit /\ NumParked

LockSpec == LockSpecInit /\ [][LockNext]_vars

\* A block, an $err_expr and a panic run to their end, and a free mutex is
\* handed to a thread blocked in lock().
LockFairness ==
    \A t \in Threads :
        /\ WF_vars(Acquire(t))
        /\ WF_vars(BlockExit(t) \/ BlockPanic(t))
        /\ WF_vars(ErrPanic(t))
        /\ WF_vars(ErrExprReturn(t) \/ ErrExprPanic(t))

FairLockSpec == LockSpecInit /\ [][LockNext]_vars /\ LockFairness

(***************************************************************************)
(* The operands the operations are applied to.                             *)
(***************************************************************************)
Types == {"i32", "f64"}
Dims == {2, 3}

\* Component values: the extremes, values whose sums and products overflow,
\* and values whose do not.
IntVals == {I(MinInt), I(-1), I(2), I(MaxInt)}

\* Zero, the smallest unit, a value whose spacing exceeds the unit, +inf.
FloatVals == {F(0), F(1), F(Pow2(MantBits + 1)), INF(1)}

Vals(t) == IF t = "i32" THEN IntVals ELSE FloatVals

Vectors(n, S) == [0..(n - 1) -> S]

USIZE(k) == [c |-> "usize", v |-> k]

NumIdle ==
    /\ op = "start"
    /\ args = <<>>
    /\ self = a
    /\ out3 = b
    /\ ret = NONE
    /\ panicked = FALSE

(***************************************************************************)
(* Spec: the binary operations on vectors and points.                      *)
(***************************************************************************)
Init ==
    /\ ty \in Types
    /\ overflow_checks \in BOOLEAN
    /\ \E n \in Dims :
        /\ a \in Vectors(n, Vals(ty))
        /\ b \in Vectors(n, Vals(ty))
    /\ NumIdle
    /\ LockInit

\* a += b
AddAssign ==
    /\ op = "start"
    /\ LET r == add_assign(self, b)
       IN self' = r.vec /\ panicked' = r.panicked
    /\ op' = "add_assign"
    /\ UNCHANGED <<ty, overflow_checks, a, b, args, out3, ret>>
    /\ UNCHANGED lockvars

\* ... then a -= b, when the += returned.
SubAssign ==
    /\ op = "add_assign"
    /\ ~panicked
    /\ LET r == sub_assign(self, b)
       IN self' = r.vec /\ panicked' = r.panicked
    /\ op' = "add_sub_assign"
    /\ UNCHANGED <<ty, overflow_checks, a, b, args, out3, ret>>
    /\ UNCHANGED lockvars

\* v = p - q for the points p = a, q = b.
PointSub ==
    /\ op = "start"
    /\ LET r == PointSubPoint(a, b)
       IN self' = r.vec /\ panicked' = r.panicked
    /\ op' = "point_sub"
    /\ UNCHANGED <<ty, overflow_checks, a, b, args, out3, ret>>
    /\ UNCHANGED lockvars

\* ... then q + v, when the subtraction returned.
PointAdd ==
    /\ op = "point_sub"
    /\ ~panicked
    /\ LET r == PointAddVector(b, self)
       IN self' = r.vec /\ panicked' = r.panicked
    /\ op' = "point_sub_add"
    /\ UNCHANGED <<ty, overflow_checks, a, b, args, out3, ret>>
    /\ UNCHANGED lockvars

\* a.cross(&b)
Cross ==
    /\ op = "start"
    /\ Dim(a) = 3
    /\ LET r == cross(a, b)
       IN self' = r.vec /\ panicked' = r.panicked
    /\ op' = "cross"
    /\ UNCHANGED <<ty, overflow_checks, a, b, args, out3, ret>>
    /\ UNCHANGED lockvars

\* ... then -(b.cross(&a)), when the first product returned.
NegCross ==
    /\ op = "cross"
    /\ ~panicked
    /\ LET r == cross(b, a)
           m == neg(r.vec)
       IN IF r.panicked
          THEN out3' = out3 /\ panicked' = TRUE
          ELSE out3' = m.vec /\ panicked' = m.panicked
    /\ op' = "cross_neg"
    /\ UNCHANGED <<ty, overflow_checks, a, b, args, self, ret>>
    /\ UNCHANGED lockvars

Ratios == {F(0), F(One \div 2), F(One)}

\* Point3::lerp(ratio, &a, &b)
Lerp(ratio) ==
    /\ op = "start"
    /\ Dim(a) = 3
    /\ self' = lerp(ratio, a, b)
    /\ args' = <<ratio>>
    /\ op' = "lerp"
    /\ UNCHANGED <<ty, overflow_checks, a, b, out3, ret, panicked>>
    /\ UNCHANGED lockvars

Next ==
    \/ AddAssign
    \/ SubAssign
    \/ PointSub
    \/ PointAdd
    \/ Cross
    \/ NegCross
    \/ \E ratio \in Ratios : Lerp(ratio)

Spec == Init /\ [][Next]_vars

(***************************************************************************)
(* UnarySpec: the operations on one vector.                                *)
(***************************************************************************)
UnaryIntVals == {I(MinInt), I(-1), I(0), I(1), I(2), I(3), I(MaxInt)}

UnaryFloatVals == {F(-One), F(0), F(1), F(One), F(Pow2(MantBits + 1)), INF(1), NAN}

UnaryVals(t) == IF t = "i32" THEN UnaryIntVals ELSE UnaryFloatVals

UnaryInit ==
    /\ ty \in Types
    /\ overflow_checks \in BOOLEAN
    /\ \E n \in Dims : a \in Vectors(n, UnaryVals(ty))
    /\ b = a
    /\ NumIdle
    /\ LockInit

\* a.max_dimension()
MaxDimension ==
    /\ op = "start"
    /\ LET r == max_dimension(a)
       IN IF r = -1
          THEN ret' = ret /\ panicked' = TRUE
          ELSE ret' = USIZE(r) /\ panicked' = FALSE
    /\ op' = "max_dimension"
    /\ UNCHANGED <<ty, overflow_checks, a, b, args, self, out3>>
    /\ UNCHANGED lockvars

\* a.length_squared()
LengthSquared ==
    /\ op = "start"
    /\ LET r == length_squared(a)
       IN IF r = PANIC
          THEN ret' = ret /\ panicked' = TRUE
          ELSE ret' = r /\ panicked' = FALSE
    /\ op' = "length_squared"
    /\ UNCHANGED <<ty, overflow_checks, a, b, args, self, out3>>
    /\ UNCHANGED lockvars

\* a.normalize()
Normalize ==
    /\ op = "start"
    /\ LET r == normalize(a)
       IN self' = r.vec /\ panicked' = r.panicked
    /\ op' = "normalize"
    /\ UNCHANGED <<ty, overflow_checks, a, b, args, out3, ret>>
    /\ UNCHANGED lockvars

\* coordinate_system(&a, &mut v2, &mut v3)
CoordinateSystem ==
    /\ op = "start"
    /\ ty = "f64"
    /\ Dim(a) = 3
    /\ LET r == coordinate_system(a)
       IN self' = r.v2 /\ out3' = r.v3
    /\ op' = "coordinate_system"
    /\ UNCHANGED <<ty, overflow_checks, a, b, args, ret, panicked>>
    /\ UNCHANGED lockvars

UnaryNext ==
    \/ MaxDimension
    \/ LengthSquared
    \/ Normalize
    \/ CoordinateSystem

UnarySpec == UnaryInit /\ [][UnaryNext]_vars

(***************************************************************************)
(* IndexSpec: indexed reads and writes, and permute, at positions inside   *)
(* and outside the dimension.                                              *)
(***************************************************************************)
IndexVals(t) == IF t = "i32" THEN {I(-1), I(2)} ELSE {F(0), F(One)}

Positions == 0..MaxIndex

IndexInit ==
    /\ ty \in Types
    /\ overflow_checks \in BOOLEAN
    /\ \E n \in Dims : a \in Vectors(n, IndexVals(ty))
    /\ b = a
    /\ NumIdle
    /\ LockInit

\* vector[index]
Index(index) ==
    /\ op = "start"
    /\ LET r == VectorIndex(a, index)
       IN IF r = PANIC
          THEN ret' = ret /\ panicked' = TRUE
          ELSE ret' = r /\ panicked' = FALSE
    /\ args' = <<index>>
    /\ op' = "index"
    /\ UNCHANGED <<ty, overflow_checks, a, b, self, out3>>
    /\ UNCHANGED lockvars

\* vector[index] = val
IndexMut(index, val) ==
    /\ op = "start"
    /\ LET r == VectorIndexMut(self, index, val)
       IN self' = r.vec /\ panicked' = r.panicked
    /\ args' = <<index, val>>
    /\ op' = "index_mut"
    /\ UNCHANGED <<ty, overflow_checks, a, b, out3, ret>>
    /\ UNCHANGED lockvars

\* vector.permute(x, y, z)
Permute(x, y, z) ==
    /\ op = "start"
    /\ Dim(a) = 3
    /\ LET r == permute(a, x, y, z)
       IN IF r.panicked
          THEN out3' = out3 /\ panicked' = TRUE
          ELSE out3' = r.vec /\ panicked' = FALSE
    /\ args' = <<x, y, z>>
    /\ op' = "permute"
    /\ UNCHANGED <<ty, overflow_checks, a, b, self, ret>>
    /\ UNCHANGED lockvars

\* point[index]
PointGet(index) ==
    /\ op = "start"
    /\ LET r == PointIndex(a, index)
       IN IF r = PANIC
          THEN ret' = ret /\ panicked' = TRUE
          ELSE ret' = r /\ panicked' = FALSE
    /\ args' = <<index>>
    /\ op' = "point_index"
    /\ UNCHANGED <<ty, overflow_checks, a, b, self, out3>>
    /\ UNCHANGED lockvars

\* point[index] = val
PointSet(index, val) ==
    /\ op = "start"
    /\ LET r == PointIndexMut(self, index, val)
       IN self' = r.vec /\ panicked' = r.panicked
    /\ args' = <<index, val>>
    /\ op' = "point_index_mut"
    /\ UNCHANGED <<ty, overflow_checks, a, b, out3, ret>>
    /\ UNCHANGED lockvars

\* point.permute(x, y, z)
PermutePoint(x, y, z) ==
    /\ op = "start"
    /\ Dim(a) = 3
    /\ LET r == PointPermute(a, x, y, z)
       IN IF r.panicked
          THEN out3' = out3 /\ panicked' = TRUE
          ELSE out3' = r.vec /\ panicked' = FALSE
    /\ args' = <<x, y, z>>
    /\ op' = "point_permute"
    /\ UNCHANGED <<ty, overflow_checks, a, b, self, ret>>
    /\ UNCHANGED lockvars

IndexNext ==
    \/ \E index \in Positions : Index(index)
    \/ \E index \in Positions, val \in IndexVals(ty) : IndexMut(index, val)
    \/ \E x, y, z \in Positions : Permute(x, y, z)
    \/ \E index \in Positions : PointGet(index)
    \/ \E index \in Positions, val \in IndexVals(ty) : PointSet(index, val)
    \/ \E x, y, z \in Positions : PermutePoint(x, y, z)

IndexSpec == IndexInit /\ [][IndexNext]_vars

(***************************************************************************)
(* Properties of the binary operations (checked under Spec).               *)
(***************************************************************************)
Components(x) == 0..(Dim(x) - 1)

\* Some component sum a[i] + b[i] leaves the i32 range.
SumOverflows == \E i \in Components(a) : ~InRange(a[i].v + b[i].v)

\* Some component difference a[i] - b[i] leaves the i32 range.
DifferenceOverflows == \E i \in Components(a) : ~InRange(a[i].v - b[i].v)

\* C1 as stated: for every pair of integer vectors a and b, a += b and then
\* a -= b both return and leave a vector equal to the original a.
C1_RoundTripEveryPair ==
    ty = "i32" =>
        /\ op = "add_assign" => ~panicked
        /\ op = "add_sub_assign" => ~panicked /\ eq(self, a)

\* C1 amended: on integer vectors, a += b panics exactly when the build
\* checks overflow and some a[i] + b[i] leaves the i32 range; whenever it
\* returns (wrapped sums included), a -= b returns too and the result equals
\* the original a component by component.
C1_RoundTripUnlessOverflowPanics ==
    ty = "i32" =>
        /\ op = "add_assign" => (panicked <=> (overflow_checks /\ SumOverflows))
        /\ op = "add_sub_assign" => ~panicked /\ eq(self, a)

\* C1 witness: a wrapped sum is undone by the wrapping subtraction.
C1_Witness ==
    /\ ty = "i32"
    /\ op = "add_sub_assign"
    /\ ~overflow_checks
    /\ SumOverflows
    /\ eq(self, a)

Representable(k) == Abs(k) \in Magnitudes

\* Every component difference a[i] - b[i] of two f64 operands is finite and
\* exactly representable.
DifferenceExact ==
    \A i \in Components(a) :
        /\ IsFinite(a[i])
        /\ IsFinite(b[i])
        /\ Representable(a[i].v - b[i].v)

\* C2 as stated: for all points p and q of the same type, p - q yields a
\* vector v, and q + v equals p component by component.
C2_SubThenAddEveryPair ==
    /\ op = "point_sub" => ~panicked
    /\ op = "point_sub_add" => ~panicked /\ PointEq(self, a)

\* C2 amended: for integer points, p - q panics exactly when the build
\* checks overflow and some p[i] - q[i] leaves the i32 range, and whenever
\* it returns v (wrapped or not) q + v returns and equals p; for f64 points
\* p - q and q + v never panic, and q + v equals p whenever every
\* p[i] - q[i] is finite and exactly representable.
C2_SubThenAddWhenExact ==
    /\ ty = "i32" =>
        /\ op = "point_sub" => (panicked <=> (overflow_checks /\ DifferenceOverflows))
        /\ op = "point_sub_add" => ~panicked /\ PointEq(self, a)
    /\ ty = "f64" =>
        /\ op \in {"point_sub", "point_sub_add"} => ~panicked
        /\ (op = "point_sub_add" /\ DifferenceExact) => PointEq(self, a)

\* C2 witness: an f64 pair with exact differences comes back to p, with a
\* non-zero displacement.
C2_Witness ==
    /\ ty = "f64"
    /\ op = "point_sub_add"
    /\ DifferenceExact
    /\ \E i \in Components(a) : a[i] # b[i]
    /\ PointEq(self, a)

\* C6 as stated: for all 3D vectors a and b, a.cross(b) and -(b.cross(a))
\* are both computed and are equal component by component.
C6_AntiCommutesEveryPair ==
    /\ op = "cross" => ~panicked
    /\ op = "cross_neg" => ~panicked /\ eq(self, out3)

\* C6 amended: for 3D integer vectors, a.cross(b) and -(b.cross(a)) can panic
\* only in a build that checks overflow, and whenever both return they are
\* equal component by component (wrapped values included); for 3D f64
\* vectors neither panics and they are equal exactly when no component of
\* a.cross(b) is NaN.
C6_AntiCommutesUnlessPanicOrNaN ==
    op \in {"cross", "cross_neg"} =>
        /\ ty = "i32" =>
            /\ panicked => overflow_checks
            /\ (op = "cross_neg" /\ ~panicked) => eq(self, out3)
        /\ ty = "f64" =>
            /\ ~panicked
            /\ op = "cross_neg" =>
                (eq(self, out3) <=> \A i \in 0..2 : ~IsNaN(self[i]))

\* C6 witness: a non-zero integer product whose negated reverse equals it.
C6_Witness ==
    /\ ty = "i32"
    /\ op = "cross_neg"
    /\ ~panicked
    /\ \E i \in 0..2 : self[i].v # 0
    /\ eq(self, out3)

AllFinite(x) == \A i \in DOMAIN x : IsFinite(x[i])

Le(x, y) == PartialCmp(x, y) \in {"less", "equal"}
Lt(x, y) == PartialCmp(x, y) = "less"

HasNaN(x) == \E i \in DOMAIN x : IsNaN(x[i])

\* C3 as stated: max_dimension() returns the index of a maximum component,
\* and on ties the smallest such index.
C3_MaxDimensionFirstOfTies ==
    (op = "max_dimension" /\ ~panicked) =>
        /\ ret.v \in Components(a)
        /\ \A j \in Components(a) : Le(a[j], a[ret.v])
        /\ \A j \in Components(a) : j < ret.v => Lt(a[j], a[ret.v])

\* C3 amended: on a vector with no NaN component max_dimension() returns the
\* index of a maximum component, and on ties the largest such index (the
\* last occurrence in scan order); it panics exactly when a component is NaN.
C3_MaxDimensionLastOfTies ==
    op = "max_dimension" =>
        /\ panicked <=> HasNaN(a)
        /\ ~panicked =>
            /\ ret.v \in Components(a)
            /\ \A j \in Components(a) : Le(a[j], a[ret.v])
            /\ \A j \in Components(a) : j > ret.v => Lt(a[j], a[ret.v])

\* C3 witness: two components share the maximum and the later one is returned.
C3_Witness ==
    /\ op = "max_dimension"
    /\ ~panicked
    /\ \E j \in Components(a) : j < ret.v /\ a[j] = a[ret.v]

RECURSIVE SumOfSquares(_, _)
\* The mathematical sum of the squares of the components from i on.
SumOfSquares(x, i) ==
    IF i >= Dim(x) THEN 0 ELSE x[i].v * x[i].v + SumOfSquares(x, i + 1)

\* C4: length_squared() of an integer vector returns, for every component
\* value of the integer range, the mathematical sum of the squares of the
\* components as a double: no integer overflow occurs.
C4_LengthSquaredNeverOverflows ==
    (op = "length_squared" /\ ty = "i32") =>
        /\ ~panicked
        /\ ret = F(One * SumOfSquares(a, 0))

\* A mathematically unit-length f64 vector.
IsUnit(x) == AllFinite(x) /\ SumOfSquares(x, 0) = One * One

Vec3(x, y, z) == [i \in 0..2 |-> <<x, y, z>>[i + 1]]

Dominant(v1) == IF F64Gt(F64Abs(v1[0]), F64Abs(v1[1])) THEN v1[0] ELSE v1[1]

\* x is finite and so small that x * x rounds to zero: x^2 is at most half
\* of the smallest positive f64.
SquareUnderflows(x) == IsFinite(x) /\ 2 * x.v * x.v <= Pow2(FracBits)

IsZeroVector(x) == \A i \in DOMAIN x : x[i] = F(0)

\* C11 as stated: in coordinate_system, for every v1 other than the zero
\* vector (here: with finite components), the value under the square root
\* that v2 is divided by is strictly positive in the branch taken.
C11_DivisorPositiveUnlessZeroVector ==
    (op = "coordinate_system" /\ AllFinite(a) /\ ~IsZeroVector(a)) =>
        F64Gt(SquaredDivisor(a), F(0))

\* C11 amended: in coordinate_system the value under the square root is
\* strictly positive exactly when neither of the two components squared in
\* the branch taken is NaN and at least one of the two has a square that
\* does not round to zero; it is zero, and v2 gets a NaN component, for the
\* zero vector and also for every v1 whose components in the branch are
\* both too small for their squares to be representable.
C11_DivisorPositiveUnlessSquaresVanish ==
    op = "coordinate_system" =>
        /\ F64Gt(SquaredDivisor(a), F(0)) <=>
               /\ ~IsNaN(Dominant(a))
               /\ ~IsNaN(a[2])
               /\ ~(SquareUnderflows(Dominant(a)) /\ SquareUnderflows(a[2]))
        /\ (SquareUnderflows(Dominant(a)) /\ SquareUnderflows(a[2])) =>
               /\ SquaredDivisor(a) = F(0)
               /\ HasNaN(self)

\* C11 witness: a non-zero v1 that is not of unit length, in the second
\* branch, with a strictly positive value under the square root and a
\* finite v2.
C11_Witness ==
    /\ op = "coordinate_system"
    /\ AllFinite(a)
    /\ ~IsZeroVector(a)
    /\ ~IsUnit(a)
    /\ ~F64Gt(F64Abs(a[0]), F64Abs(a[1]))
    /\ F64Gt(SquaredDivisor(a), F(0))
    /\ AllFinite(self)

(***************************************************************************)
(* Properties of indexing (checked under IndexSpec).                       *)
(***************************************************************************)
OutOfRange(index) == ~(index \in Components(a))

\* C7: an indexed read or write of a vector or a point at a position
\* outside [0, N), permute with such an index included, panics and leaves
\* every component as it was; at positions inside [0, N) it does not panic
\* and reads or writes the component at that position.
C7_IndexFailsFast ==
    /\ op \in {"index", "point_index"} =>
        /\ panicked <=> OutOfRange(args[1])
        /\ ~panicked => ret = a[args[1]]
        /\ self = a
    /\ op \in {"index_mut", "point_index_mut"} =>
        /\ panicked <=> OutOfRange(args[1])
        /\ panicked => self = a
        /\ ~panicked => self = [a EXCEPT ![args[1]] = args[2]]
    /\ op \in {"permute", "point_permute"} =>
        /\ panicked <=> \E k \in 1..3 : OutOfRange(args[k])
        /\ ~panicked => out3 = [i \in 0..2 |-> a[args[i + 1]]]
        /\ self = a

\* C7 witness: a write at position N panicked and changed nothing.
C7_Witness ==
    /\ op = "index_mut"
    /\ args[1] = Dim(a)
    /\ args[2] # a[0]
    /\ panicked
    /\ self = a

(***************************************************************************)
(* Properties of the shared container (checked under LockSpec and          *)
(* FairLockSpec).                                                          *)
(***************************************************************************)
Terminated(t) == pc[t] \in {"panicked_block", "panicked_lock", "panicked_err_expr"}

InBlock(t) == pc[t] \in {"ok_arm", "err_arm"}

====
